---------------------------- MODULE Spec2Model ----------------------------
(***************************************************************************)
(* Model of src/main.rs: async_main as a sequential process on a           *)
(* current-thread runtime, the spawned run_until_disconnected task, and    *)
(* the outcomes of the library calls it makes (grammers_client).           *)
(*                                                                         *)
(* pc is the position of async_main; every value names the call the        *)
(* process is about to make or is suspended in.  The driver task and the   *)
(* connection only make progress while async_main is suspended in an       *)
(* await (runtime::Builder::new_current_thread, main.rs:149).              *)
(***************************************************************************)
EXTENDS Naturals, Sequences, FiniteSets

\* Bounds of the model.
MaxEvents == 2      \* updates the connection produces in one run
MaxRuns == 2        \* runs of the process over the same session file

\* User identifiers carried by senders.
UserIds == {7, 42}

VARIABLES
    file,           \* SESSION_FILE: "none" or "authorized" (persisted after sign-in)
    run,            \* which run of the process this is
    pc,             \* position of async_main
    session,        \* the Session as loaded: "none", "fresh", "authorized"
    authorized,     \* what is_authorized() returned: "none", "true", "false"
    authenticated,  \* sign_in or check_password succeeded in this run
    sign_out,       \* the local sign_out (line 53)
    prompts,        \* prompt() calls made, in order
    calls,          \* authentication remote calls made, in order: <<op, argument, result>>
    token,          \* LoginToken held (line 58)
    signed_in,      \* result of sign_in (line 60)
    password_token, \* PasswordToken of PasswordRequired: "none", "hint", "nohint"
    saveResult,     \* result of save_to_file: "none", "Ok", "Err"
    driver,         \* the spawned task: "unspawned", "running", "Ok", "Err", "JoinError"
    queue,          \* updates produced by the connection, not yet delivered
    produced,       \* the updates the connection has produced, in order
    update,         \* the update being dispatched, <<>> when none
    delivered,      \* updates next_update has returned, in order
    gfuCalls,       \* user ids of the GetFullUser calls issued, in order
    gfuLog,         \* results logged for the GetFullUser calls (line 109-112)
    nextRequests,   \* number of next_update() requests made
    loopEnd,        \* how the while loop ended: "none", "eos", "fetchErr"
    signOutCalls,   \* number of sign_out_disconnect() calls
    awaited,        \* network_handle has been awaited and its result observed
    exitStatus,     \* "running", "0", "1" (main returned Err), "101" (panic)
    exitCause       \* the call whose failure ended the run, "none" otherwise

vars == <<file, run, pc, session, authorized, authenticated, sign_out, prompts, calls, token,
          signed_in, password_token, saveResult, driver, queue, produced, update,
          delivered, gfuCalls, gfuLog, nextRequests, loopEnd, signOutCalls,
          awaited, exitStatus, exitCause>>

authVars == <<session, authorized, authenticated, sign_out, prompts, calls, token, signed_in,
              password_token, saveResult>>
loopVars == <<driver, queue, produced, update, delivered, gfuCalls, gfuLog,
              nextRequests, loopEnd, signOutCalls, awaited>>

-----------------------------------------------------------------------------
\* Update, Chat and sender values (grammers_client::Update, types::Chat).

\* The chat of a message is a Group or not (a User chat stands for the `_` arm
\* of line 117, which Channel chats take too); its sender is absent, a user
\* with an id, or a channel.
NewMessages ==
    [kind : {"NewMessage"}, chat : {"Group", "User"},
     sender : {"User"}, id : UserIds]
    \cup [kind : {"NewMessage"}, chat : {"Group", "User"},
          sender : {"None", "Channel"}, id : {0}]

OtherUpdates == [kind : {"Other"}, chat : {"Group"}, sender : {"None"}, id : {0}]

Updates == NewMessages \cup OtherUpdates

\* user.pack(): a PackedChat of type User with the user's id.
Pack(user) == [ty |-> "User", id |-> user]

\* TryToInputUser answering the current user (InputUser::UserSelf) for whoever was packed.
TryToInputUserSelf(packed) == <<[user_id |-> 0]>>

\* PackedChat::try_to_input_user(): Some(InputUser) for users, None otherwise.
TryToInputUser(packed) ==
    IF packed.ty = "User" THEN <<[user_id |-> packed.id]>> ELSE <<>>

\* Matches without the test of the sender's variant (line 105).
MatchesIgnoringSender(u) == u.kind = "NewMessage" /\ u.chat = "Group"

\* The pattern of lines 100-105: Update::NewMessage, Chat::Group, Some(Chat::User).
Matches(u) == u.kind = "NewMessage" /\ u.chat = "Group" /\ u.sender = "User"

\* Process end: Err returned from async_main (exit 1) or a panic (exit 101).
Exit(status, cause) ==
    /\ pc' = "exit"
    /\ exitStatus' = status
    /\ exitCause' = cause

\* async_main is suspended in an await on the connection: the driver task may run.
Suspended == pc \in {"next_update", "get_full_user", "sign_out_disconnect", "await_network"}

Disconnected == driver \in {"Ok", "Err", "JoinError"}

-----------------------------------------------------------------------------
\* The state in which a run of the process starts.
RunStart ==
    /\ pc = "load"
    /\ session = "none"
    /\ authorized = "none"
    /\ authenticated = FALSE
    /\ sign_out = FALSE
    /\ prompts = <<>>
    /\ calls = <<>>
    /\ token = "none"
    /\ signed_in = "none"
    /\ password_token = "none"
    /\ saveResult = "none"
    /\ driver = "unspawned"
    /\ queue = <<>>
    /\ produced = <<>>
    /\ update = <<>>
    /\ delivered = <<>>
    /\ gfuCalls = <<>>
    /\ gfuLog = <<>>
    /\ nextRequests = 0
    /\ loopEnd = "none"
    /\ signOutCalls = 0
    /\ awaited = FALSE
    /\ exitStatus = "running"
    /\ exitCause = "none"

Init ==
    /\ file = "none"
    /\ run = 1
    /\ RunStart


-----------------------------------------------------------------------------
\* Authentication (lines 40-87).

\* Session::load_file_or_create(SESSION_FILE)? (line 41)
LoadSession ==
    /\ pc = "load"
    /\ \E r \in {"Ok", "Err"} :
        IF r = "Ok"
        THEN /\ session' = (IF file = "authorized" THEN "authorized" ELSE "fresh")
             /\ pc' = "connect"
             /\ UNCHANGED <<exitStatus, exitCause>>
        ELSE /\ Exit("1", "load")
             /\ UNCHANGED session
    /\ UNCHANGED <<file, run, authorized, authenticated, sign_out, prompts, calls,
                   token, signed_in, password_token, saveResult, loopVars>>

\* Client::connect(Config {..}).await? (lines 40-50)
Connect ==
    /\ pc = "connect"
    /\ \E r \in {"Ok", "Err"} :
        IF r = "Ok"
        THEN pc' = "is_authorized" /\ UNCHANGED <<exitStatus, exitCause>>
        ELSE Exit("1", "connect")
    /\ UNCHANGED <<file, run, authVars, loopVars>>

\* What is_authorized() answers for the session the client was built from:
\* a session persisted after authorization is authorized, a fresh one is not.
IsAuthorizedResults == {session = "authorized"}

\* IsAuthorized with the answer of is_authorized() not consulted: always signs in.
IsAuthorizedAlwaysSignsIn ==
    /\ pc = "is_authorized"
    /\ sign_out' = FALSE
    /\ \/ \E r \in IsAuthorizedResults :
            /\ authorized' = (IF r THEN "true" ELSE "false")
            /\ pc' = "prompt_phone"
            /\ UNCHANGED <<exitStatus, exitCause>>
       \/ Exit("1", "is_authorized") /\ UNCHANGED authorized
    /\ UNCHANGED <<file, run, session, authenticated, prompts, calls, token,
                   signed_in, password_token, saveResult, loopVars>>

\* let mut sign_out = false; if !client.is_authorized().await? { (lines 53-56)
IsAuthorized ==
    /\ pc = "is_authorized"
    /\ sign_out' = FALSE
    /\ \/ \E r \in IsAuthorizedResults :
            /\ authorized' = (IF r THEN "true" ELSE "false")
            /\ pc' = (IF ~r THEN "prompt_phone" ELSE "spawn")
            /\ UNCHANGED <<exitStatus, exitCause>>
       \/ Exit("1", "is_authorized") /\ UNCHANGED authorized
    /\ UNCHANGED <<file, run, session, authenticated, prompts, calls, token,
                   signed_in, password_token, saveResult, loopVars>>

\* prompt(message)? : the message is written and a line read; either may fail
\* (lines 16-28).  On success the process goes on to `next`.
Prompt(kind, next) ==
    /\ prompts' = Append(prompts, kind)
    /\ \E r \in {"Ok", "Err"} :
        IF r = "Ok"
        THEN pc' = next /\ UNCHANGED <<exitStatus, exitCause>>
        ELSE Exit("1", "prompt")

\* let phone = prompt("Enter your phone number ...")?; (line 57)
PromptPhone ==
    /\ pc = "prompt_phone"
    /\ Prompt("phone", "request_login_code")
    /\ UNCHANGED <<file, run, session, authorized, authenticated, sign_out, calls, token,
                   signed_in, password_token, saveResult, loopVars>>

\* let token = client.request_login_code(&phone, api_id, &api_hash).await?; (line 58)
RequestLoginCode ==
    /\ pc = "request_login_code"
    /\ \E r \in {"Ok", "Err"} :
        /\ calls' = Append(calls, <<"requestLoginCode", "phone", r>>)
        /\ IF r = "Ok"
           THEN /\ token' = "LoginToken"
                /\ pc' = "prompt_code"
                /\ UNCHANGED <<exitStatus, exitCause>>
           ELSE /\ Exit("1", "request_login_code")
                /\ UNCHANGED token
    /\ UNCHANGED <<file, run, session, authorized, authenticated, sign_out, prompts,
                   signed_in, password_token, saveResult, loopVars>>

\* let code = prompt("Enter the code you received: ")?; (line 59)
PromptCode ==
    /\ pc = "prompt_code"
    /\ Prompt("code", "sign_in")
    /\ UNCHANGED <<file, run, session, authorized, authenticated, sign_out, calls, token,
                   signed_in, password_token, saveResult, loopVars>>

\* let signed_in = client.sign_in(&token, &code).await; (line 60)
\* PasswordRequired carries a PasswordToken whose hint() is an Option.
SignIn ==
    /\ pc = "sign_in"
    /\ \E r \in {"Ok", "PasswordRequired", "Other"} :
        /\ calls' = Append(calls, <<"signIn", token, r>>)
        /\ signed_in' = r
        /\ IF r = "PasswordRequired"
           THEN \E h \in {"hint", "nohint"} : password_token' = h
           ELSE UNCHANGED password_token
    /\ pc' = "match_signed_in"
    /\ UNCHANGED <<file, run, session, authorized, authenticated, sign_out, prompts, token,
                   saveResult, loopVars, exitStatus, exitCause>>

\* MatchSignedIn with any other sign-in error reported and passed over.
MatchSignedInLenient ==
    /\ pc = "match_signed_in"
    /\ CASE signed_in = "Ok" ->
              /\ authenticated' = TRUE
              /\ pc' = "save"
              /\ UNCHANGED <<exitStatus, exitCause>>
         [] signed_in = "PasswordRequired" /\ password_token = "hint" ->
              /\ pc' = "prompt_password"
              /\ UNCHANGED <<authenticated, exitStatus, exitCause>>
         [] signed_in = "PasswordRequired" /\ password_token # "hint" ->
              /\ Exit("101", "hint_unwrap")
              /\ UNCHANGED authenticated
         [] OTHER ->
              /\ pc' = "save"
              /\ UNCHANGED <<authenticated, exitStatus, exitCause>>
    /\ UNCHANGED <<file, run, session, authorized, sign_out, prompts, calls, token,
                   signed_in, password_token, saveResult, loopVars>>

\* match signed_in { Err(PasswordRequired(t)) => t.hint().unwrap() ..., Ok(_) => (),
\*                   Err(e) => panic!(..) } (lines 61-65, 73-75)
MatchSignedIn ==
    /\ pc = "match_signed_in"
    /\ CASE signed_in = "Ok" ->
              /\ authenticated' = TRUE
              /\ pc' = "save"
              /\ UNCHANGED <<exitStatus, exitCause>>
         [] signed_in = "PasswordRequired" /\ password_token = "hint" ->
              /\ pc' = "prompt_password"
              /\ UNCHANGED <<authenticated, exitStatus, exitCause>>
         [] signed_in = "PasswordRequired" /\ password_token # "hint" ->
              /\ Exit("101", "hint_unwrap")
              /\ UNCHANGED authenticated
         [] OTHER ->
              /\ Exit("101", "sign_in")
              /\ UNCHANGED authenticated
    /\ UNCHANGED <<file, run, session, authorized, sign_out, prompts, calls, token,
                   signed_in, password_token, saveResult, loopVars>>

\* let password = prompt(prompt_message.as_str())?; (lines 66-67)
PromptPassword ==
    /\ pc = "prompt_password"
    /\ Prompt("password", "check_password")
    /\ UNCHANGED <<file, run, session, authorized, authenticated, sign_out, calls, token,
                   signed_in, password_token, saveResult, loopVars>>

\* CheckPassword with a failed check answered by asking for the password again.
CheckPasswordRetries ==
    /\ pc = "check_password"
    /\ \E r \in {"Ok", "Err"} :
        /\ calls' = Append(calls, <<"checkPassword", password_token, r>>)
        /\ IF r = "Ok"
           THEN authenticated' = TRUE /\ pc' = "save"
           ELSE pc' = "prompt_password" /\ UNCHANGED authenticated
    /\ UNCHANGED <<file, run, session, authorized, sign_out, prompts, token,
                   signed_in, password_token, saveResult, loopVars, exitStatus, exitCause>>

\* client.check_password(password_token, password.trim()).await?; (lines 69-71)
CheckPassword ==
    /\ pc = "check_password"
    /\ \E r \in {"Ok", "Err"} :
        /\ calls' = Append(calls, <<"checkPassword", password_token, r>>)
        /\ IF r = "Ok"
           THEN /\ authenticated' = TRUE
                /\ pc' = "save"
                /\ UNCHANGED <<exitStatus, exitCause>>
           ELSE /\ Exit("1", "check_password")
                /\ UNCHANGED authenticated
    /\ UNCHANGED <<file, run, session, authorized, sign_out, prompts, token,
                   signed_in, password_token, saveResult, loopVars>>

\* SaveSession with the failure of the save only reported: sign_out is not set.
SaveSessionIgnoresError ==
    /\ pc = "save"
    /\ \E r \in {"Ok", "Err"} :
        /\ saveResult' = r
        /\ IF r = "Ok" THEN file' = "authorized" ELSE UNCHANGED file
    /\ pc' = "spawn"
    /\ UNCHANGED <<run, session, authorized, authenticated, sign_out, prompts, calls,
                   token, signed_in, password_token, loopVars, exitStatus, exitCause>>

\* match client.session().save_to_file(SESSION_FILE) { Ok(_) => {},
\*     Err(e) => { println!(..); sign_out = true; } } (lines 76-86)
SaveSession ==
    /\ pc = "save"
    /\ \E r \in {"Ok", "Err"} :
        /\ saveResult' = r
        /\ IF r = "Ok"
           THEN file' = "authorized" /\ UNCHANGED sign_out
           ELSE sign_out' = TRUE /\ UNCHANGED file
    /\ pc' = "spawn"
    /\ UNCHANGED <<run, session, authorized, authenticated, prompts, calls, token,
                   signed_in, password_token, loopVars, exitStatus, exitCause>>

-----------------------------------------------------------------------------
\* The driver task and the dispatch loop (lines 96-120).

\* let mut client_handle = client.clone();
\* let network_handle = task::spawn(async move { client.run_until_disconnected().await });
\* followed by the first client_handle.next_update().await (lines 96-99)
Spawn ==
    /\ pc = "spawn"
    /\ driver' = "running"
    /\ pc' = "next_update"
    /\ nextRequests' = nextRequests + 1
    /\ UNCHANGED <<file, run, authVars, queue, produced, update, delivered, gfuCalls,
                   gfuLog, loopEnd, signOutCalls, awaited, exitStatus, exitCause>>

\* The connection delivers an update to the running driver, which queues it for
\* next_update (events are handed over in the order the connection produced them).
ConnectionProduces ==
    /\ driver = "running"
    /\ Suspended
    /\ Len(produced) < MaxEvents
    /\ \E u \in Updates :
        /\ queue' = Append(queue, u)
        /\ produced' = Append(produced, u)
    /\ UNCHANGED <<file, run, pc, authVars, driver, update, delivered, gfuCalls, gfuLog,
                   nextRequests, loopEnd, signOutCalls, awaited, exitStatus, exitCause>>

\* client.run_until_disconnected() ends: normally, with an error, or by a panic
\* of the task (a JoinError for the awaiting side) (line 97).
DriverEnds ==
    /\ driver = "running"
    /\ Suspended
    /\ \E r \in {"Ok", "Err", "JoinError"} : driver' = r
    /\ UNCHANGED <<file, run, pc, authVars, queue, produced, update, delivered, gfuCalls,
                   gfuLog, nextRequests, loopEnd, signOutCalls, awaited, exitStatus,
                   exitCause>>

\* What next_update() can answer: end-of-sequence once disconnected; while
\* connected the next queued update, or an error fetching it.
NextUpdateResults ==
    IF Disconnected THEN {"None"}
    ELSE {"Err"} \cup (IF queue # <<>> THEN {"Some"} ELSE {})

\* NextUpdate with the end of the sequence taken for "no update yet": the loop
\* keeps waiting for an update.
NextUpdateEosPollsAgain ==
    /\ pc = "next_update"
    /\ \E r \in NextUpdateResults :
        CASE r = "Some" ->
              /\ update' = Head(queue)
              /\ queue' = Tail(queue)
              /\ delivered' = Append(delivered, Head(queue))
              /\ pc' = "dispatch"
              /\ UNCHANGED <<loopEnd, exitStatus, exitCause>>
          [] r = "None" ->
              UNCHANGED <<pc, update, queue, delivered, loopEnd, exitStatus, exitCause>>
          [] OTHER ->
              /\ loopEnd' = "fetchErr"
              /\ Exit("1", "next_update")
              /\ UNCHANGED <<update, queue, delivered>>
    /\ UNCHANGED <<file, run, authVars, driver, produced, gfuCalls, gfuLog, nextRequests,
                   signOutCalls, awaited>>

\* NextUpdate with a failed fetch leaving the loop like the end of the sequence
\* (break instead of `?`).
NextUpdateErrBreaks ==
    /\ pc = "next_update"
    /\ \E r \in NextUpdateResults :
        CASE r = "Some" ->
              /\ update' = Head(queue)
              /\ queue' = Tail(queue)
              /\ delivered' = Append(delivered, Head(queue))
              /\ pc' = "dispatch"
              /\ UNCHANGED loopEnd
          [] r = "None" ->
              /\ loopEnd' = "eos"
              /\ pc' = "check_sign_out"
              /\ UNCHANGED <<update, queue, delivered>>
          [] OTHER ->
              /\ loopEnd' = "fetchErr"
              /\ pc' = "check_sign_out"
              /\ UNCHANGED <<update, queue, delivered>>
    /\ UNCHANGED <<file, run, authVars, driver, produced, gfuCalls, gfuLog, nextRequests,
                   signOutCalls, awaited, exitStatus, exitCause>>

\* NextUpdate with the end of the sequence taken for a failure of the fetch.
NextUpdateEosIsError ==
    /\ pc = "next_update"
    /\ \E r \in NextUpdateResults :
        CASE r = "Some" ->
              /\ update' = Head(queue)
              /\ queue' = Tail(queue)
              /\ delivered' = Append(delivered, Head(queue))
              /\ pc' = "dispatch"
              /\ UNCHANGED <<loopEnd, exitStatus, exitCause>>
          [] OTHER ->
              /\ loopEnd' = "fetchErr"
              /\ Exit("1", "next_update")
              /\ UNCHANGED <<update, queue, delivered>>
    /\ UNCHANGED <<file, run, authVars, driver, produced, gfuCalls, gfuLog, nextRequests,
                   signOutCalls, awaited>>

\* while let Some(update) = client_handle.next_update().await? { (line 99)
NextUpdate ==
    /\ pc = "next_update"
    /\ \E r \in NextUpdateResults :
        CASE r = "Some" ->
              /\ update' = Head(queue)
              /\ queue' = Tail(queue)
              /\ delivered' = Append(delivered, Head(queue))
              /\ pc' = "dispatch"
              /\ UNCHANGED <<loopEnd, exitStatus, exitCause>>
          [] r = "None" ->
              /\ loopEnd' = "eos"
              /\ pc' = "check_sign_out"
              /\ UNCHANGED <<update, queue, delivered, exitStatus, exitCause>>
          [] OTHER ->
              /\ loopEnd' = "fetchErr"
              /\ Exit("1", "next_update")
              /\ UNCHANGED <<update, queue, delivered>>
    /\ UNCHANGED <<file, run, authVars, driver, produced, gfuCalls, gfuLog, nextRequests,
                   signOutCalls, awaited>>

\* Dispatch with the GetFullUser call handed to a task of its own and not awaited.
DispatchWithoutAwait ==
    /\ pc = "dispatch"
    /\ IF Matches(update)
       THEN gfuCalls' = Append(gfuCalls, TryToInputUser(Pack(update.id))[1].user_id)
       ELSE UNCHANGED gfuCalls
    /\ pc' = "next_update"
    /\ update' = <<>>
    /\ nextRequests' = nextRequests + 1
    /\ UNCHANGED <<file, run, authVars, driver, queue, produced, delivered, gfuLog,
                   loopEnd, signOutCalls, awaited, exitStatus, exitCause>>

\* The loop body up to the await of get_full_user (lines 100-108, 115-119):
\* a matching update issues GetFullUser { id: input_user }; any other update
\* falls through to the next next_update().
Dispatch ==
    /\ pc = "dispatch"
    /\ IF Matches(update)
       THEN LET input_user == TryToInputUser(Pack(update.id))
            IN  IF input_user = <<>>
                THEN /\ Exit("101", "input_user_unwrap")
                     /\ UNCHANGED <<update, gfuCalls, nextRequests>>
                ELSE /\ gfuCalls' = Append(gfuCalls, input_user[1].user_id)
                     /\ pc' = "get_full_user"
                     /\ UNCHANGED <<update, nextRequests, exitStatus, exitCause>>
       ELSE /\ pc' = "next_update"
            /\ update' = <<>>
            /\ nextRequests' = nextRequests + 1
            /\ UNCHANGED <<gfuCalls, exitStatus, exitCause>>
    /\ UNCHANGED <<file, run, authVars, driver, queue, produced, delivered, gfuLog,
                   loopEnd, signOutCalls, awaited>>

\* What client.invoke(&GetFullUser { id }) can answer: a result or an
\* InvocationError while connected, an InvocationError once disconnected.
InvokeResults == IF Disconnected THEN {"Err"} ELSE {"Ok", "Err"}

\* GetFullUserReturns with a failed call tried again for the same update.
GetFullUserRetries ==
    /\ pc = "get_full_user"
    /\ \E r \in InvokeResults :
        /\ gfuLog' = Append(gfuLog, r)
        /\ IF r = "Ok"
           THEN /\ pc' = "next_update"
                /\ update' = <<>>
                /\ nextRequests' = nextRequests + 1
           ELSE /\ pc' = "dispatch"
                /\ UNCHANGED <<update, nextRequests>>
    /\ UNCHANGED <<file, run, authVars, driver, queue, produced, delivered, gfuCalls,
                   loopEnd, signOutCalls, awaited, exitStatus, exitCause>>

\* GetFullUserReturns with the error propagated (get_full_user(..).await?).
GetFullUserPropagates ==
    /\ pc = "get_full_user"
    /\ \E r \in InvokeResults :
        /\ gfuLog' = Append(gfuLog, r)
        /\ IF r = "Ok"
           THEN /\ pc' = "next_update"
                /\ update' = <<>>
                /\ nextRequests' = nextRequests + 1
                /\ UNCHANGED <<exitStatus, exitCause>>
           ELSE /\ Exit("1", "get_full_user")
                /\ UNCHANGED <<update, nextRequests>>
    /\ UNCHANGED <<file, run, authVars, driver, queue, produced, delivered, gfuCalls,
                   loopEnd, signOutCalls, awaited>>

\* match get_full_user(..).await { Ok(_user) => warn!(..), Err(error) => error!(..) }
\* and back to next_update() (lines 108-113, 99)
GetFullUserReturns ==
    /\ pc = "get_full_user"
    /\ \E r \in InvokeResults : gfuLog' = Append(gfuLog, r)
    /\ pc' = "next_update"
    /\ update' = <<>>
    /\ nextRequests' = nextRequests + 1
    /\ UNCHANGED <<file, run, authVars, driver, queue, produced, delivered, gfuCalls,
                   loopEnd, signOutCalls, awaited, exitStatus, exitCause>>

-----------------------------------------------------------------------------
\* Shutdown (lines 122-128).

\* CheckSignOut with the driver task awaited first: the sign-out is passed over.
CheckSignOutAfterAwait ==
    /\ pc = "check_sign_out"
    /\ pc' = "await_network"
    /\ UNCHANGED <<file, run, authVars, loopVars, exitStatus, exitCause>>

\* CheckSignOut with the test of sign_out negated.
CheckSignOutInverted ==
    /\ pc = "check_sign_out"
    /\ IF ~sign_out
       THEN pc' = "sign_out_disconnect" /\ signOutCalls' = signOutCalls + 1
       ELSE pc' = "await_network" /\ UNCHANGED signOutCalls
    /\ UNCHANGED <<file, run, authVars, driver, queue, produced, update, delivered,
                   gfuCalls, gfuLog, nextRequests, loopEnd, awaited, exitStatus,
                   exitCause>>

\* if sign_out { client_handle.sign_out_disconnect() ... (lines 122-124)
CheckSignOut ==
    /\ pc = "check_sign_out"
    /\ IF sign_out
       THEN pc' = "sign_out_disconnect" /\ signOutCalls' = signOutCalls + 1
       ELSE pc' = "await_network" /\ UNCHANGED signOutCalls
    /\ UNCHANGED <<file, run, authVars, driver, queue, produced, update, delivered,
                   gfuCalls, gfuLog, nextRequests, loopEnd, awaited, exitStatus,
                   exitCause>>

\* drop(client_handle.sign_out_disconnect().await); the result is dropped, and
\* the call may panic ("also, this panics", line 123).  It disconnects.
SignOutDisconnectReturns ==
    /\ pc = "sign_out_disconnect"
    /\ driver' = (IF driver = "running" THEN "Ok" ELSE driver)
    /\ \E r \in {"Ok", "Err", "Panic"} :
        IF r = "Panic"
        THEN Exit("101", "sign_out_disconnect")
        ELSE pc' = "await_network" /\ UNCHANGED <<exitStatus, exitCause>>
    /\ UNCHANGED <<file, run, authVars, queue, produced, update, delivered, gfuCalls,
                   gfuLog, nextRequests, loopEnd, signOutCalls, awaited>>

\* AwaitNetwork with one `?` only: the task's own result is dropped.
AwaitNetworkSingleTry ==
    /\ pc = "await_network"
    /\ Disconnected
    /\ awaited' = TRUE
    /\ CASE driver \in {"Ok", "Err"} -> Exit("0", "none")
         [] OTHER -> Exit("1", "join")
    /\ UNCHANGED <<file, run, authVars, driver, queue, produced, update, delivered,
                   gfuCalls, gfuLog, nextRequests, loopEnd, signOutCalls>>

\* network_handle.await??; Ok(()) (lines 127-128)
AwaitNetwork ==
    /\ pc = "await_network"
    /\ Disconnected
    /\ awaited' = TRUE
    /\ CASE driver = "Ok" -> Exit("0", "none")
         [] driver = "Err" -> Exit("1", "network")
         [] OTHER -> Exit("1", "join")
    /\ UNCHANGED <<file, run, authVars, driver, queue, produced, update, delivered,
                   gfuCalls, gfuLog, nextRequests, loopEnd, signOutCalls>>

\* The process is started again over the same session file (main, lines 148-154).
Restart ==
    /\ pc = "exit"
    /\ run < MaxRuns
    /\ run' = run + 1
    /\ pc' = "load"
    /\ session' = "none"
    /\ authorized' = "none"
    /\ authenticated' = FALSE
    /\ sign_out' = FALSE
    /\ prompts' = <<>>
    /\ calls' = <<>>
    /\ token' = "none"
    /\ signed_in' = "none"
    /\ password_token' = "none"
    /\ saveResult' = "none"
    /\ driver' = "unspawned"
    /\ queue' = <<>>
    /\ produced' = <<>>
    /\ update' = <<>>
    /\ delivered' = <<>>
    /\ gfuCalls' = <<>>
    /\ gfuLog' = <<>>
    /\ nextRequests' = 0
    /\ loopEnd' = "none"
    /\ signOutCalls' = 0
    /\ awaited' = FALSE
    /\ exitStatus' = "running"
    /\ exitCause' = "none"
    /\ UNCHANGED file

Next ==
    \/ LoadSession
    \/ Connect
    \/ IsAuthorized
    \/ PromptPhone
    \/ RequestLoginCode
    \/ PromptCode
    \/ SignIn
    \/ MatchSignedIn
    \/ PromptPassword
    \/ CheckPassword
    \/ SaveSession
    \/ Spawn
    \/ ConnectionProduces
    \/ DriverEnds
    \/ NextUpdate
    \/ Dispatch
    \/ GetFullUserReturns
    \/ CheckSignOut
    \/ SignOutDisconnectReturns
    \/ AwaitNetwork
    \/ Restart

Spec == Init /\ [][Next]_vars

\* A step async_main can take without waiting for the server: the synchronous
\* ones, and the return of an await on the connection once the connection has
\* ended (pending operations then fail, the task's result is ready).
MainStep ==
    \/ Dispatch
    \/ Disconnected /\ GetFullUserReturns
    \/ Disconnected /\ NextUpdate
    \/ CheckSignOut
    \/ SignOutDisconnectReturns
    \/ AwaitNetwork

\* The runtime polls async_main whenever it can make such a step.
Fairness == WF_vars(MainStep)

\* One run of the process, started without a session file or over the file a
\* previous run has written, with the steps of async_main taken fairly.
RunInit ==
    /\ file \in {"none", "authorized"}
    /\ run = 1
    /\ RunStart

RunNext ==
    \/ LoadSession
    \/ Connect
    \/ IsAuthorized
    \/ PromptPhone
    \/ RequestLoginCode
    \/ PromptCode
    \/ SignIn
    \/ MatchSignedIn
    \/ PromptPassword
    \/ CheckPassword
    \/ SaveSession
    \/ Spawn
    \/ ConnectionProduces
    \/ DriverEnds
    \/ NextUpdate
    \/ Dispatch
    \/ GetFullUserReturns
    \/ CheckSignOut
    \/ SignOutDisconnectReturns
    \/ AwaitNetwork

FairSpec == RunInit /\ [][RunNext]_vars /\ Fairness

TypeOK ==
    /\ file \in {"none", "authorized"}
    /\ run \in 1..MaxRuns
    /\ session \in {"none", "fresh", "authorized"}
    /\ authorized \in {"none", "true", "false"}
    /\ authenticated \in BOOLEAN
    /\ sign_out \in BOOLEAN
    /\ driver \in {"unspawned", "running", "Ok", "Err", "JoinError"}
    /\ Len(queue) + Len(delivered) = Len(produced)
    /\ Len(produced) <= MaxEvents
    /\ exitStatus \in {"running", "0", "1", "101"}

-----------------------------------------------------------------------------
\* Properties.

\* Number of positions of seq that hold x.
Count(seq, x) == Cardinality({i \in DOMAIN seq : seq[i] = x})

\* The authentication calls of one operation, in order.
CallsOf(op) == SelectSeq(calls, LAMBDA c : c[1] = op)

\* An update the dispatcher reacts to, as the filter is described: a new
\* message in a Group chat whose sender is present and is a private user.
OfInterest(u) ==
    /\ u.kind = "NewMessage"
    /\ u.chat = "Group"
    /\ u.sender # "None"
    /\ u.sender = "User"

\* C1: when sign-in succeeded, a failed save sets sign_out and
\* sign_out_disconnect is invoked by the time the process has exited; a
\* successful save leaves sign_out false and sign_out_disconnect is never invoked.
C1_PersistenceFallback ==
    /\ saveResult = "Err" => sign_out
    /\ (saveResult = "Err" /\ pc = "exit") => signOutCalls = 1
    /\ saveResult = "Ok" => (~sign_out /\ signOutCalls = 0)

\* C2: at every process exit that follows a successful authentication the
\* session has been saved to the file or sign_out_disconnect has been invoked.
C2_StoredOrRevokedAtExit ==
    (pc = "exit" /\ authenticated) => (saveResult = "Ok" \/ signOutCalls >= 1)

\* C3: dispatching an update that is not a new message, or not in a Group chat,
\* or without sender, or whose sender is no private user, issues no GetFullUser
\* call and goes on to the next next_update() request without ending the process.
C3_FilterNegative ==
    [][(pc = "dispatch" /\ ~OfInterest(update))
        => /\ pc' = "next_update"
           /\ gfuCalls' = gfuCalls
           /\ nextRequests' = nextRequests + 1
           /\ exitStatus' = "running"]_vars

C3_Witness ==
    /\ pc = "next_update"
    /\ Len(delivered) = 2
    /\ delivered[1].kind = "Other"
    /\ delivered[2] = [kind |-> "NewMessage", chat |-> "Group", sender |-> "Channel", id |-> 0]
    /\ nextRequests = 3
    /\ gfuCalls = <<>>

\* C4: dispatching a new message in a Group chat from private user id issues
\* exactly one GetFullUser call, for that id, before the next next_update()
\* request; the ids of the calls issued are, as a multiset, the sender ids of
\* the matching updates dispatched so far.
C4_FilterPositive ==
    /\ [](LET done == IF pc = "dispatch"
                      THEN SubSeq(delivered, 1, Len(delivered) - 1)
                      ELSE delivered
              ids == [i \in DOMAIN done |-> done[i].id]
          IN  /\ Len(gfuCalls) = Cardinality({i \in DOMAIN done : OfInterest(done[i])})
              /\ \A id \in UserIds :
                    Count(gfuCalls, id)
                        = Cardinality({i \in DOMAIN done : OfInterest(done[i]) /\ ids[i] = id}))
    /\ [][(pc = "dispatch" /\ OfInterest(update))
            => /\ pc' = "get_full_user"
               /\ gfuCalls' = Append(gfuCalls, update.id)
               /\ nextRequests' = nextRequests]_vars

C4_Witness ==
    /\ pc = "next_update"
    /\ Len(delivered) = 2
    /\ OfInterest(delivered[1]) /\ delivered[1].id = 42
    /\ OfInterest(delivered[2]) /\ delivered[2].id = 7
    /\ gfuCalls = <<42, 7>>

\* C5: when a GetFullUser call returns, also with an InvocationError, the
\* result is logged, the process keeps running, the loop has not ended and the
\* next update is requested.
C5_Resilience ==
    [][(pc = "get_full_user" /\ pc' # pc)
        => /\ pc' = "next_update"
           /\ nextRequests' = nextRequests + 1
           /\ gfuLog' \in {Append(gfuLog, "Ok"), Append(gfuLog, "Err")}
           /\ loopEnd' = "none"
           /\ exitStatus' = "running"]_vars

C5_Witness ==
    /\ Len(gfuLog) = 1
    /\ gfuLog[1] = "Err"
    /\ driver = "running"
    /\ Len(delivered) = 2
    /\ pc = "dispatch"

\* C6: once the driver has ended, no further update is delivered and no further
\* GetFullUser call is issued, and the pending next_update() request ends the
\* loop as end-of-sequence: the process goes on to the shutdown, still running.
C6_Termination ==
    [][(Disconnected /\ run' = run)
        => /\ gfuCalls' = gfuCalls
           /\ delivered' = delivered
           /\ (pc = "next_update" /\ pc' # pc)
                => /\ pc' = "check_sign_out"
                   /\ loopEnd' = "eos"
                   /\ exitStatus' = "running"]_vars

C6_Witness ==
    /\ pc = "check_sign_out"
    /\ loopEnd = "eos"
    /\ Disconnected
    /\ queue # <<>>
    /\ Len(gfuLog) = 1

\* C7: once the sign-in result has been handled, there is exactly one password
\* prompt, followed by one checkPassword call with the PasswordToken received,
\* if and only if sign_in answered PasswordRequired; otherwise there is neither.
C7_PasswordPromptIff ==
    (signed_in # "none" /\ pc \notin {"match_signed_in", "prompt_password", "check_password"})
        => IF signed_in = "PasswordRequired"
           THEN /\ Count(prompts, "password") = 1
                /\ Len(CallsOf("checkPassword")) = 1
                /\ CallsOf("checkPassword")[1][2] = password_token
           ELSE /\ Count(prompts, "password") = 0
                /\ CallsOf("checkPassword") = <<>>

\* C8: in a run that loaded a session persisted by an earlier run after its
\* authentication, is_authorized() does not answer false, and there is no
\* prompt, no requestLoginCode, signIn or checkPassword call and no save: the
\* process goes from is_authorized() straight to starting the driver.
C8_PersistedSessionReused ==
    session = "authorized"
        => /\ authorized # "false"
           /\ prompts = <<>>
           /\ calls = <<>>
           /\ saveResult = "none"
           /\ pc \in {"connect", "is_authorized", "spawn", "next_update", "dispatch",
                      "get_full_user", "check_sign_out", "await_network", "exit"}

C8_Witness ==
    /\ run = 2
    /\ session = "authorized"
    /\ authorized = "true"
    /\ driver = "running"
    /\ prompts = <<>>

\* C9: the process exits with status 0 only when the driver task ended
\* normally, its result was awaited and the loop ended by end-of-sequence; it
\* exits non-zero when the driver task ended with an error or the loop ended
\* by a failed fetch.
C9_ExitStatus ==
    /\ exitStatus = "0" => (driver = "Ok" /\ awaited /\ loopEnd = "eos")
    /\ (pc = "exit" /\ (driver \in {"Err", "JoinError"} \/ loopEnd = "fetchErr"))
            => exitStatus \in {"1", "101"}

C9_Witness ==
    /\ pc = "exit"
    /\ exitStatus = "1"
    /\ driver = "Err"
    /\ loopEnd = "eos"
    /\ awaited

\* C10: when requestLoginCode fails, signIn fails with an error other than
\* PasswordRequired, or checkPassword fails, that call is the last one made
\* (no retry), the process has exited non-zero, and in that run the session
\* was not saved, sign_out was not set, the driver was not spawned and no
\* update was requested.
C10_AuthErrorsFatal ==
    \A i \in DOMAIN calls :
        calls[i][3] \in {"Err", "Other"}
            => /\ i = Len(calls)
               /\ pc \in {"match_signed_in", "exit"}
               /\ pc = "exit" => exitStatus \in {"1", "101"}
               /\ saveResult = "none"
               /\ file = "none"
               /\ ~sign_out
               /\ driver = "unspawned"
               /\ nextRequests = 0

C10_Witness ==
    /\ pc = "exit"
    /\ Len(calls) = 3
    /\ calls[3][1] = "checkPassword"
    /\ calls[3][3] = "Err"
    /\ exitStatus = "1"

\* The authentication flow has ended without aborting: the process is about to
\* spawn the driver task or has spawned it.
FlowDone == pc = "spawn" \/ driver # "unspawned"

\* s is an initial part of t.
IsPrefix(s, t) == Len(s) <= Len(t) /\ s = SubSeq(t, 1, Len(s))

\* The updates whose dispatch has been carried out (the one at hand is not yet).
Dispatched ==
    IF pc = "dispatch" THEN SubSeq(delivered, 1, Len(delivered) - 1) ELSE delivered

\* C11: the driver task is spawned exactly when the authentication has ended
\* (after the save attempt, or right after is_authorized() answered true) and
\* before the first next_update() request; its result is awaited only as the
\* last step, after the loop ended and after sign_out_disconnect when sign_out
\* is set.
C11_DriverLifecycle ==
    /\ nextRequests > 0 => driver # "unspawned"
    /\ driver # "unspawned"
        => \/ authorized = "true" /\ calls = <<>> /\ saveResult = "none"
           \/ authorized = "false" /\ authenticated /\ saveResult # "none"
    /\ (driver = "unspawned" /\ (authorized = "true" \/ saveResult # "none"))
        => (pc = "spawn" /\ nextRequests = 0)
    /\ awaited
        => /\ pc = "exit"
           /\ exitCause \in {"none", "network", "join"}
           /\ loopEnd = "eos"
           /\ sign_out => signOutCalls = 1

C11_Witness ==
    /\ awaited
    /\ sign_out
    /\ signOutCalls = 1
    /\ Len(delivered) = 1
    /\ exitStatus = "0"

\* C12: next_update() hands over the updates in the order the connection
\* produced them, none twice and none skipped while the loop runs; each is
\* requested once, and the GetFullUser calls issued are, in order, the sender
\* ids of the matching updates of that sequence.
C12_EventOrdering ==
    /\ IsPrefix(delivered, produced)
    /\ produced = delivered \o queue
    /\ driver # "unspawned"
        => nextRequests = Len(delivered) + (IF pc \in {"dispatch", "get_full_user"} THEN 0 ELSE 1)
    /\ LET matching == SelectSeq(Dispatched, OfInterest)
       IN  gfuCalls = [i \in 1..Len(matching) |-> matching[i].id]

C12_Witness ==
    /\ Len(produced) = 2
    /\ delivered = produced
    /\ OfInterest(produced[1]) /\ produced[1].id = 7
    /\ OfInterest(produced[2]) /\ produced[2].id = 42
    /\ gfuCalls = <<7, 42>>
    /\ Len(gfuLog) = 2

\* C13 as stated: whenever the authentication flow ends without aborting, also
\* when is_authorized() was true at startup, a save has been attempted and its
\* outcome decides sign_out.
C13_SaveAlwaysAttempted ==
    FlowDone
        => /\ saveResult \in {"Ok", "Err"}
           /\ sign_out <=> saveResult = "Err"

\* C13 amended: a flow that ends without aborting after a sign-in or password
\* check has attempted one save, whose outcome alone decides sign_out (Ok:
\* false, file written; Err: true); a flow that ends because is_authorized()
\* was true attempts no save and leaves sign_out false, the file still holding
\* the persisted session.
C13_TerminalStates ==
    FlowDone
        => IF authorized = "true"
           THEN /\ ~authenticated
                /\ saveResult = "none"
                /\ ~sign_out
                /\ file = "authorized"
           ELSE /\ authenticated
                /\ saveResult \in {"Ok", "Err"}
                /\ sign_out <=> saveResult = "Err"
                /\ saveResult = "Ok" => file = "authorized"

C13_Witness ==
    /\ FlowDone
    /\ signed_in = "PasswordRequired"
    /\ authenticated
    /\ saveResult = "Err"
    /\ sign_out

\* C14: the prompts are an initial part of phone, code, password and the calls
\* an initial part of requestLoginCode, signIn, checkPassword, each call made
\* after its prompt and before the next prompt; a save is attempted only after
\* sign_in or check_password succeeded, and at most once in a run.
C14_SideEffectBounds ==
    /\ [](/\ IsPrefix(prompts, <<"phone", "code", "password">>)
          /\ IsPrefix([i \in DOMAIN calls |-> calls[i][1]],
                      <<"requestLoginCode", "signIn", "checkPassword">>)
          /\ Len(calls) <= Len(prompts)
          /\ Len(prompts) <= Len(calls) + 1
          /\ saveResult # "none"
                => /\ authenticated
                   /\ calls[Len(calls)][3] = "Ok")
    /\ [][/\ (saveResult # "none" /\ run' = run)
                => (saveResult' = saveResult /\ file' = file)
          /\ file' # file => (pc = "save" /\ saveResult = "none")]_vars

C14_Witness ==
    /\ prompts = <<"phone", "code", "password">>
    /\ Len(calls) = 3
    /\ saveResult = "Ok"
    /\ driver = "running"

\* C15: in a run in which no prompt failed, once the process has exited or the
\* flow has ended, the LoginToken returned by requestLoginCode was used by
\* exactly one call, the signIn call, and the PasswordToken of a
\* PasswordRequired answer, with or without hint, was used by exactly one
\* call, the checkPassword call.
C15_TokensConsumedOnce ==
    ((pc = "exit" \/ FlowDone) /\ exitCause # "prompt")
        => /\ token # "none"
                => /\ Cardinality({i \in DOMAIN calls : calls[i][2] = token}) = 1
                   /\ \A i \in DOMAIN calls : calls[i][2] = token => calls[i][1] = "signIn"
           /\ password_token # "none"
                => /\ Cardinality({i \in DOMAIN calls : calls[i][2] = password_token}) = 1
                   /\ \A i \in DOMAIN calls :
                        calls[i][2] = password_token => calls[i][1] = "checkPassword"

\* C16: when the connection ends while a GetFullUser call is pending, the call
\* returns with an error, which is logged as a failure of that update only;
\* the next update is then requested, the loop ends by end-of-sequence, and
\* from any state in which the connection has ended the process exits.
C16_DisconnectWhilePending ==
    /\ [][(Disconnected /\ pc = "get_full_user" /\ pc' # pc)
            => /\ gfuLog' = Append(gfuLog, "Err")
               /\ pc' = "next_update"
               /\ nextRequests' = nextRequests + 1
               /\ exitStatus' = "running"
               /\ loopEnd' = "none"]_vars
    /\ [][(Disconnected /\ pc = "next_update" /\ pc' # pc) => loopEnd' = "eos"]_vars
    /\ Disconnected ~> (pc = "exit")

C16_Witness ==
    /\ Disconnected
    /\ pc = "get_full_user"
    /\ queue # <<>>

\* C17: at most one GetFullUser call is outstanding, and one is outstanding
\* exactly while the loop is suspended in it; no update is requested or
\* delivered and no further call is issued until it returns.
C17_SequentialDispatcher ==
    /\ [](/\ Len(gfuLog) <= Len(gfuCalls)
          /\ Len(gfuCalls) <= Len(gfuLog) + 1
          /\ Len(gfuCalls) = Len(gfuLog) + 1 <=> pc = "get_full_user"
          /\ pc = "next_update" => Len(gfuCalls) = Len(gfuLog))
    /\ [][(pc = "get_full_user" /\ pc' = pc)
            => /\ delivered' = delivered
               /\ nextRequests' = nextRequests
               /\ gfuCalls' = gfuCalls]_vars

C17_Witness ==
    /\ pc = "get_full_user"
    /\ driver = "running"
    /\ Len(queue) = 1
    /\ Len(gfuCalls) = 1
    /\ gfuLog = <<>>

\* C18: sign_out_disconnect is invoked at most once, only with sign_out set,
\* only after next_update() answered end-of-sequence (the connection has
\* ended) and before the driver task is awaited; while the loop runs the
\* driver ends only by itself, never by a step of async_main, so the loop ends
\* only by end-of-sequence or a failed fetch.
C18_SignOutOnlyAtShutdown ==
    /\ [](/\ signOutCalls <= 1
          /\ signOutCalls = 1 => (sign_out /\ loopEnd = "eos" /\ Disconnected)
          /\ loopEnd = "eos" => Disconnected
          /\ pc \in {"check_sign_out", "sign_out_disconnect", "await_network"}
                => loopEnd = "eos")
    /\ [][/\ signOutCalls' > signOutCalls => (pc = "check_sign_out" /\ ~awaited)
          /\ (awaited /\ run' = run) => signOutCalls' = signOutCalls
          /\ (loopEnd = "none" /\ driver = "running" /\ driver' # driver) => pc' = pc]_vars

C18_Witness ==
    /\ signOutCalls = 1
    /\ pc = "await_network"
    /\ ~awaited
    /\ Len(delivered) = 1

=============================================================================
